---- MODULE Spec2Model ----
(***************************************************************************)
(* A model of src/src/mirt_train_EM.py: ingestion of attempt records into  *)
(* per-user states, the EM epoch loop (E-step sampling, M-step L-BFGS over *)
(* L_dL, checkpoint), and the process pool both steps map over.            *)
(*                                                                         *)
(* Three specifications share the actions:                                 *)
(*   IngestSpec  main() with num_epochs = 0 over a rich family of input    *)
(*               files (malformed rows, several users and replicas);       *)
(*   Spec        main() with training, over a small family of files;       *)
(*   LSpec       one call of L_dL on arguments drawn from bounded sets.    *)
(*                                                                         *)
(* Numbers.  Reals are held in fixed point.  Probabilities are in quarters *)
(* (Sigmoid gives 0..4), log2 in quarters, and everything L_dL divides by  *)
(* the user count is held in units of 1/UnitsPerUser(n) so that the        *)
(* division is exact.  Floating-point rounding of a sum is kept: Fl rounds *)
(* to MantissaBits significant bits, so that addition is not associative.  *)
(* NaN and PosInf are the non-finite floats.                               *)
(***************************************************************************)
EXTENDS Integers, Sequences, FiniteSets, TLC

(***************************************************************************)
(* Bounds of the model.                                                    *)
(***************************************************************************)
\* longest input file of IngestSpec, in lines
MaxLines == 3
\* largest --num_replicas
MaxReplicas == 2
\* --max_pass_lbfgs, the optimizer's cap on evaluations of L_dL
MaxPassLbfgs == 2
\* largest --workers
MaxWorkers == 2
\* significant bits of a float
MantissaBits == 3
\* LSpec: most user states passed to L_dL, and most attempts of one of them
MaxLUsers == 3
MaxAttempts == 2
\* LSpec: most attempts of all user states passed to L_dL together
MaxTotalAttempts == 4
\* LSpec: rows of the coupling matrix passed to L_dL
LRows == 2
\* Spec: longest input file, and largest --num_epochs
MaxTrainLines == 3
MaxEpochs == 2

(***************************************************************************)
(* Program constants (scaled: the program's MAX_EXERCISES is 10000).       *)
(***************************************************************************)
MAX_EXERCISES == 2
\* chunksize of pool.map (100 in the program)
ChunkSize == 2

Users == {"u1", "u2"}
Exercises == {"e1", "e2", "e3"}
\* the values np.random.randn and the sampler can give an ability
AbilityVals == {0 - 1, 1}

VARIABLES
    options,            \* the run configuration (get_cmd_line_options)
    seed,               \* state of np.random in the main process at startup
    pc,                 \* position of main()
    replica,            \* the replica loop's counter (line 200)
    lineno,             \* lines of the file consumed in this pass (line 202)
    prev_user,
    attempts,
    user_states,
    origin,             \* ghost: for each user state, the <<pass, line>> of its rows
    exercise_ind_dict,
    current_ind,
    couplings,
    epoch,
    tasks,              \* the argument list of the parallel map in progress
    chunk_next,         \* the pool's next chunk of tasks to hand to a worker
    wchunk,             \* for each pool worker, the chunk it is running (0: idle)
    rslts,              \* results of the map so far, by position in tasks
    arrival,            \* positions in tasks in the order their results came back
    couplings_flat,     \* the optimizer's point under evaluation, as rows
    nfev,               \* evaluations of L_dL the optimizer has made
    xs,                 \* the points the optimizer has evaluated
    L,                  \* the objective L_dL returned
    dL,                 \* the gradient L_dL returned, as rows
    saved,              \* the .npz checkpoints written
    trace               \* ghost: the phases started, in order

cfgVars == <<options, seed>>
ingestVars == <<replica, lineno, prev_user, attempts, origin, exercise_ind_dict,
                current_ind>>
poolVars == <<tasks, chunk_next, wchunk, rslts, arrival>>
optVars == <<couplings_flat, nfev, xs>>
retVars == <<L, dL>>
outVars == <<saved, trace>>

vars == <<cfgVars, ingestVars, pc, user_states, couplings, epoch, poolVars,
          optVars, retVars, outVars>>

(***************************************************************************)
(* Input records.  A line is held as its fields after linesplit.split:     *)
(* short = the line has too few fields for the problemlog fields read at   *)
(* lines 216-222; num = the text of its numeric fields ("x" does not       *)
(* parse as a number).                                                     *)
(***************************************************************************)
GoodRows ==
    [user : Users, rowtype : {"problemlog"}, exercise : Exercises,
     correct : {"true", "false"}, eventually_correct : {"true"},
     num : {"1"}, short : {FALSE}]

OtherRows ==
    [user : Users, rowtype : {"other"}, exercise : {"e1"},
     correct : {"true"}, eventually_correct : {"true"},
     num : {"1"}, short : {FALSE}]

BadRow(c, ec, n, s) ==
    [user |-> "u1", rowtype |-> "problemlog", exercise |-> "e1",
     correct |-> c, eventually_correct |-> ec, num |-> n, short |-> s]

MalformedRows ==
    { BadRow("true", "true", "1", TRUE),      \* too few fields
      BadRow("true", "true", "x", FALSE),     \* unparseable numeric field
      BadRow("yes", "true", "1", FALSE),      \* correct is no boolean
      BadRow("true", "yes", "1", FALSE) }     \* eventually_correct is no boolean

AllRows == GoodRows \cup OtherRows \cup MalformedRows

\* the elements of a set of integers, ascending
RECURSIVE Ascending(_)
Ascending(S) ==
    IF S = {} THEN <<>>
    ELSE LET m == CHOOSE x \in S : \A y \in S : x <= y
         IN  <<m>> \o Ascending(S \ {m})

Files(rows, n) == UNION { [1..k -> rows] : k \in 0..n }

\* a record is malformed when a field the program reads is missing or does not
\* have the form its type asks for
Malformed(row) ==
    /\ row.rowtype = "problemlog"
    /\ \/ row.short
       \/ row.num # "1"
       \/ row.correct \notin {"true", "false"}
       \/ row.eventually_correct \notin {"true", "false"}

(***************************************************************************)
(* generate_exercise_ind and the defaultdict lookup of create_user_state.  *)
(***************************************************************************)
generate_exercise_ind_off_by_one(cur) ==
    [current_ind |-> cur + 1, ret |-> cur + 1]

generate_exercise_ind(cur) ==
    [current_ind |-> cur + 1, ret |-> (cur + 1) - 1]

\* exercise_ind_dict[ex] on a defaultdict(generate_exercise_ind)
Lookup(d, cur, ex) ==
    IF ex \in DOMAIN d
    THEN [dict |-> d, current_ind |-> cur, ind |-> d[ex]]
    ELSE LET g == generate_exercise_ind(cur)
         IN  [dict |-> [e \in DOMAIN d \cup {ex} |->
                            IF e = ex THEN g.ret ELSE d[e]],
              current_ind |-> g.current_ind, ind |-> g.ret]

\* [exercise_ind_dict[ex] for ex in exercises], left to right
RECURSIVE IndexAll(_, _, _)
IndexAll(lines, d, cur) ==
    IF lines = <<>>
    THEN [dict |-> d, current_ind |-> cur, inds |-> <<>>]
    ELSE LET h == Lookup(d, cur, Head(lines).exercise)
             t == IndexAll(Tail(lines), h.dict, h.current_ind)
         IN  [dict |-> t.dict, current_ind |-> t.current_ind,
              inds |-> <<h.ind>> \o t.inds]

\* np.random.randn in the main process: the k-th draw of the stream of seed
RandN(k) == IF k % 2 = 0 THEN seed ELSE 0 - seed

create_user_state(lines, d, cur, k) ==
    LET ix == IndexAll(lines, d, cur)
    IN  [state |-> [correct |-> [i \in 1..Len(lines) |->
                                    IF lines[i].correct THEN 1 ELSE 0],
                    abilities |-> RandN(k),
                    exercises_ind |-> ix.inds],
         dict |-> ix.dict,
         current_ind |-> ix.current_ind]

(***************************************************************************)
(* main(), lines 202-223: one line of the input.                           *)
(***************************************************************************)
\* lines 216-223 of a row that parses: the row with its fields converted
ParseRow(row) ==
    [user |-> row.user, exercise |-> row.exercise,
     correct |-> (row.correct = "true"),
     eventually_correct |-> (row.eventually_correct = "true"),
     pass |-> replica, line |-> lineno + 1]

\* the row raises at lines 216-222: IndexError on a missing field, ValueError
\* from int() or float()
Raises(row) == row.rowtype = "problemlog" /\ (row.short \/ row.num # "1")

Provenance(lines) == [i \in 1..Len(lines) |-> <<lines[i].pass, lines[i].line>>]

ReadLine ==
    /\ pc = "load"
    /\ lineno < Len(options.file)
    /\ LET row == options.file[lineno + 1]
           flush == row.user # prev_user /\ Len(attempts) > 0
           cs == create_user_state(attempts, exercise_ind_dict, current_ind,
                                   Len(user_states))
           att1 == IF flush THEN <<>> ELSE attempts
       IN  /\ user_states' = IF flush THEN Append(user_states, cs.state)
                                      ELSE user_states
           /\ origin' = IF flush THEN Append(origin, Provenance(attempts))
                                 ELSE origin
           /\ exercise_ind_dict' = IF flush THEN cs.dict ELSE exercise_ind_dict
           /\ current_ind' = IF flush THEN cs.current_ind ELSE current_ind
           /\ prev_user' = row.user
           /\ IF Raises(row)
              THEN /\ pc' = "aborted"
                   /\ attempts' = att1
                   /\ lineno' = lineno
              ELSE /\ pc' = pc
                   /\ attempts' = IF row.rowtype = "problemlog"
                                  THEN Append(att1, ParseRow(row))
                                  ELSE att1
                   /\ lineno' = lineno + 1
    /\ UNCHANGED <<cfgVars, replica, couplings, epoch, poolVars, optVars, retVars,
                   outVars>>

(***************************************************************************)
(* main(), lines 225-230: the end of one pass over the file.  The final    *)
(* user's attempts are flushed; attempts and prev_user are left as they    *)
(* are for the next pass.                                                  *)
(***************************************************************************)
EndOfFile ==
    /\ pc = "load"
    /\ lineno = Len(options.file)
    /\ LET flush == Len(attempts) > 0
           cs == create_user_state(attempts, exercise_ind_dict, current_ind,
                                   Len(user_states))
       IN  /\ user_states' = IF flush THEN Append(user_states, cs.state)
                                      ELSE user_states
           /\ origin' = IF flush THEN Append(origin, Provenance(attempts))
                                 ELSE origin
           /\ exercise_ind_dict' = IF flush THEN cs.dict ELSE exercise_ind_dict
           /\ current_ind' = IF flush THEN cs.current_ind ELSE current_ind
    /\ replica' = replica + 1
    /\ lineno' = 0
    /\ pc' = IF replica + 1 < options.num_replicas THEN "load" ELSE "trim"
    /\ UNCHANGED <<cfgVars, prev_user, attempts, couplings, epoch, poolVars,
                   optVars, retVars, outVars>>

(***************************************************************************)
(* main(), line 233: couplings = couplings[:current_ind, :]                *)
(***************************************************************************)
Min(a, b) == IF a < b THEN a ELSE b

ZeroRow == <<0, 0>>

Trim ==
    /\ pc = "trim"
    /\ couplings' = SubSeq(couplings, 1, Min(current_ind, Len(couplings)))
    /\ epoch' = 0
    /\ pc' = "epoch"
    /\ UNCHANGED <<cfgVars, ingestVars, user_states, poolVars, optVars, retVars,
                   outVars>>

\* line 236 with range(num_epochs - 1): the loop ends one epoch early
FinishEarly ==
    /\ pc = "epoch"
    /\ epoch >= options.num_epochs - 1
    /\ pc' = "done"
    /\ UNCHANGED <<cfgVars, ingestVars, user_states, couplings, epoch, poolVars,
                   optVars, retVars, outVars>>

\* main(), line 236: range(num_epochs) is exhausted
Finish ==
    /\ pc = "epoch"
    /\ epoch >= options.num_epochs
    /\ pc' = "done"
    /\ UNCHANGED <<cfgVars, ingestVars, user_states, couplings, epoch, poolVars,
                   optVars, retVars, outVars>>

\* no parallel map is in progress, the optimizer has not run, nothing is saved
Idle ==
    /\ tasks = <<>>
    /\ chunk_next = 1
    /\ rslts = <<>>
    /\ arrival = <<>>
    /\ nfev = 0
    /\ xs = {}
    /\ L = 0
    /\ dL = <<>>
    /\ saved = <<>>
    /\ trace = <<>>

(***************************************************************************)
(* The state of main() at line 199, before the first line is read.         *)
(***************************************************************************)
Start ==
    /\ pc = "load"
    /\ replica = 0
    /\ lineno = 0
    /\ prev_user = "None"
    /\ attempts = <<>>
    /\ user_states = <<>>
    /\ origin = <<>>
    /\ exercise_ind_dict = <<>>
    /\ current_ind = 0
    /\ couplings = [i \in 1..MAX_EXERCISES |-> ZeroRow]
    /\ epoch = 0
    /\ Idle
    /\ wchunk = [w \in 1..options.workers |-> 0]
    /\ couplings_flat = <<>>

InitIngest ==
    /\ options \in [file : Files(AllRows, MaxLines),
                    num_replicas : 1..MaxReplicas,
                    num_epochs : {0}, workers : {0}, regularization : {0},
                    max_pass_lbfgs : {MaxPassLbfgs}]
    /\ seed \in AbilityVals
    /\ Start

NextIngest == ReadLine \/ EndOfFile \/ Trim \/ Finish

IngestSpec == InitIngest /\ [][NextIngest]_vars

(***************************************************************************)
(* Floating point.  Fl rounds an integer to MantissaBits significant bits  *)
(* (to nearest, ties to even at the last bit), as every float operation    *)
(* rounds its exact result; NaN and PosInf are absorbing as in IEEE 754.   *)
(***************************************************************************)
PosInf == 1000 * 1000
NaN == 0 - PosInf

RECURSIVE Pow2(_)
Pow2(n) == IF n = 0 THEN 1 ELSE 2 * Pow2(n - 1)

RECURSIVE RoundMant(_)
RoundMant(m) ==
    IF m < Pow2(MantissaBits) THEN m
    ELSE LET h == m \div 2
         IN  2 * RoundMant(IF m % 2 = 1 /\ h % 2 = 1 THEN h + 1 ELSE h)

Fl(v) == IF v < 0 THEN 0 - RoundMant(0 - v) ELSE RoundMant(v)

FAdd(a, b) ==
    IF a = NaN \/ b = NaN THEN NaN
    ELSE IF a = PosInf \/ b = PosInf THEN PosInf
    ELSE Fl(a + b)

FMul(a, b) ==
    IF a = NaN \/ b = NaN THEN NaN
    ELSE IF a = PosInf \/ b = PosInf THEN PosInf
    ELSE Fl(a * b)

Neg(a) == IF a = NaN THEN NaN ELSE 0 - a

\* mirt_util.sigmoid in quarters: 1/2 at 0, saturated to exactly 0 and exactly 1
\* away from 0 as the float sigmoid is
Sigmoid(y) ==
    IF y = NaN THEN NaN
    ELSE IF y >= 2 THEN 4
    ELSE IF y <= 0 - 2 THEN 0
    ELSE y + 2

One == Sigmoid(2)

\* -log2(p / One) in quarters; np.log(0) is -inf
NegLog2(p) ==
    IF p = NaN THEN NaN
    ELSE IF p = 0 THEN PosInf
    ELSE IF p = 1 THEN 8
    ELSE IF p = 2 THEN 4
    ELSE IF p = 3 THEN 2
    ELSE 0

(***************************************************************************)
(* L_dL_singleuser, lines 124-151, with num_abilities = 1: a coupling row  *)
(* is <<weight, bias>> and the padded abilities vector is <<a, 1>>.        *)
(***************************************************************************)
\* couplings[exercises_ind, :] raises IndexError
IndexRaises(c, st) ==
    \E k \in 1..Len(st.exercises_ind) : st.exercises_ind[k] >= Len(c)

\* lines 140-144 for the k-th attempt
PData(c, st, k) ==
    LET row == c[st.exercises_ind[k] + 1]
        Y == FAdd(FMul(row[1], st.abilities), FMul(row[2], 1))
        Z == Sigmoid(Y)
        Zt == st.correct[k]
    IN  IF Z = NaN THEN NaN ELSE Zt * Z + (1 - Zt) * (One - Z)

dLdY(c, st, k) ==
    LET row == c[st.exercises_ind[k] + 1]
        Y == FAdd(FMul(row[1], st.abilities), FMul(row[2], 1))
        Z == Sigmoid(Y)
        Zt == st.correct[k]
        pdata == PData(c, st, k)
    IN  IF pdata = NaN THEN NaN
        ELSE IF pdata = 0 THEN NaN      \* 0 / 0: Z is 0 or One here
        ELSE ((2 * Zt - 1) * Z * (One - Z)) \div pdata

RECURSIVE SumNegLog(_, _, _)
SumNegLog(c, st, k) ==
    IF k = 0 THEN 0
    ELSE FAdd(SumNegLog(c, st, k - 1), NegLog2(PData(c, st, k)))

L_dL_singleuser(arg) ==
    LET c == arg.couplings
        st == arg.state
    IN  [L |-> SumNegLog(c, st, Len(st.exercises_ind)),
         dL |-> [k \in 1..Len(st.exercises_ind) |->
                    <<Neg(FMul(dLdY(c, st, k), st.abilities)),
                      Neg(FMul(dLdY(c, st, k), 1))>>],
         exercises_ind |-> st.exercises_ind]

(***************************************************************************)
(* L_dL, lines 154-178.  Per-user values are divided by the user count n:  *)
(* the totals are held in units of 1/Units of the per-user units.          *)
(***************************************************************************)
Units == 3 * 4 * 5

PerUser(v, n) ==
    IF v = NaN THEN NaN
    ELSE IF v = PosInf THEN PosInf
    ELSE Fl((v * Units) \div n)

RowAdd(r1, r2) == <<FAdd(r1[1], r2[1]), FAdd(r1[2], r2[2])>>

\* the assignment half of dL[exercise_indu, :] += ..., to every row alike
RECURSIVE ScatterBroadcast(_, _, _, _)
ScatterBroadcast(g, idx, tmp, k) ==
    IF k > Len(idx) THEN g
    ELSE ScatterBroadcast([r \in 1..Len(g) |-> RowAdd(g[r], tmp[k])],
                          idx, tmp, k + 1)

\* the assignment half of dL[exercise_indu, :] += ...: row idx[k] is set to
\* tmp[k] for k = 1, 2, ... in turn
RECURSIVE Scatter(_, _, _, _)
Scatter(g, idx, tmp, k) ==
    IF k > Len(idx) THEN g
    ELSE Scatter([g EXCEPT ![idx[k] + 1] = tmp[k]], idx, tmp, k + 1)

\* line 173: the rows are read (dL[exercise_indu, :]), added to, and assigned
IndexedAdd(g, idx, v) ==
    LET tmp == [k \in 1..Len(idx) |-> RowAdd(g[idx[k] + 1], v[k])]
    IN  Scatter(g, idx, tmp, 1)

\* lines 170-173, over the results rs[k..]
RECURSIVE Accumulate(_, _, _, _)
Accumulate(acc, rs, k, n) ==
    IF k > Len(rs) THEN acc
    ELSE LET r == rs[k]
             v == [j \in 1..Len(r.dL) |->
                     <<PerUser(r.dL[j][1], n), PerUser(r.dL[j][2], n)>>]
         IN  Accumulate([L |-> FAdd(acc.L, PerUser(r.L, n)),
                         dL |-> IndexedAdd(acc.dL, r.exercises_ind, v)],
                        rs, k + 1, n)

\* sum(couplings_flat ** 2), the builtin sum: left to right from 0
RECURSIVE SumSquares(_, _)
SumSquares(cf, k) ==
    IF k = 0 THEN 0
    ELSE FAdd(FAdd(SumSquares(cf, k - 1), FMul(cf[k][1], cf[k][1])),
              FMul(cf[k][2], cf[k][2]))

\* 2. * options.regularization * couplings, one entry, in the units of dL
RegGrad(reg, c) == FMul(FMul(FMul(2, reg), c), One * Units)

\* lines 156-178 given the results of the map
L_dL_reduce(cf, rs, n, reg) ==
    LET acc == Accumulate([L |-> 0, dL |-> [r \in 1..Len(cf) |-> ZeroRow]],
                          rs, 1, n)
    IN  [L |-> FAdd(acc.L, FMul(FMul(reg, SumSquares(cf, Len(cf))),
                                One * Units)),
         dL |-> [r \in 1..Len(cf) |->
                    RowAdd(acc.dL[r],
                           <<RegGrad(reg, cf[r][1]), RegGrad(reg, cf[r][2])>>)]]

(***************************************************************************)
(* The parallel map: pool.map(f, tasks, chunksize) on a Pool of            *)
(* options.workers processes, or the builtin map when options.workers = 0. *)
(* pool.map cuts the tasks into chunks, hands each idle worker the next    *)
(* chunk, and returns the results by position once every chunk is back.    *)
(***************************************************************************)
NumChunks(n) == (n + ChunkSize - 1) \div ChunkSize

ChunkOf(c, n) == ((c - 1) * ChunkSize + 1)..Min(c * ChunkSize, n)

MapReturned == DOMAIN rslts = 1..Len(tasks)

\* the caller drops the argument list and the results of a map that returned
MapDiscard ==
    /\ tasks' = <<>>
    /\ chunk_next' = 1
    /\ rslts' = <<>>
    /\ arrival' = <<>>

\* the results in the order they came back
MapResultsUnordered == [k \in 1..Len(arrival) |-> rslts[arrival[k]]]

\* rslts as map and pool.map return it: by position in the argument list
MapResults == [k \in 1..Len(tasks) |-> rslts[k]]

WorkerTake(w) ==
    /\ pc \in {"E_wait", "L_wait"}
    /\ wchunk[w] = 0
    /\ chunk_next <= NumChunks(Len(tasks))
    /\ wchunk' = [wchunk EXCEPT ![w] = chunk_next]
    /\ chunk_next' = chunk_next + 1
    /\ UNCHANGED <<cfgVars, ingestVars, pc, user_states, couplings, epoch,
                   tasks, rslts, arrival, optVars, retVars, outVars>>

\* a worker returns the results of its chunk of L_dL_singleuser tasks
LWorkerFinish(w) ==
    /\ pc = "L_wait"
    /\ wchunk[w] # 0
    /\ LET ch == ChunkOf(wchunk[w], Len(tasks))
       IN  IF \E i \in ch : IndexRaises(tasks[i].couplings, tasks[i].state)
           THEN /\ pc' = "aborted"
                /\ UNCHANGED <<rslts, arrival>>
           ELSE /\ pc' = pc
                /\ rslts' = [i \in DOMAIN rslts \cup ch |->
                                IF i \in ch THEN L_dL_singleuser(tasks[i])
                                ELSE rslts[i]]
                /\ arrival' = arrival \o Ascending(ch)
    /\ wchunk' = [wchunk EXCEPT ![w] = 0]
    /\ UNCHANGED <<cfgVars, ingestVars, user_states, couplings, epoch, tasks,
                   chunk_next, optVars, retVars, outVars>>

\* pool is None: map(L_dL_singleuser, tasks) in the main process
LSyncMap ==
    /\ pc = "L_wait"
    /\ options.workers = 0
    /\ ~MapReturned
    /\ IF \E i \in 1..Len(tasks) :
             IndexRaises(tasks[i].couplings, tasks[i].state)
       THEN /\ pc' = "aborted"
            /\ UNCHANGED <<rslts, arrival>>
       ELSE /\ pc' = pc
            /\ rslts' = [i \in 1..Len(tasks) |-> L_dL_singleuser(tasks[i])]
            /\ arrival' = [i \in 1..Len(tasks) |-> i]
    /\ UNCHANGED <<cfgVars, ingestVars, user_states, couplings, epoch, tasks,
                   chunk_next, wchunk, optVars, retVars, outVars>>

\* L_dL, lines 156-169: the argument list is built and the map begins
L_Dispatch ==
    /\ pc = "L_call"
    /\ tasks' = [i \in 1..Len(user_states) |->
                    [fn |-> "L_dL_singleuser", couplings |-> couplings_flat,
                     state |-> user_states[i]]]
    /\ chunk_next' = 1
    /\ rslts' = <<>>
    /\ arrival' = <<>>
    /\ pc' = "L_wait"
    /\ UNCHANGED <<cfgVars, ingestVars, user_states, couplings, epoch, wchunk,
                   optVars, retVars, outVars>>

\* L_dL, lines 170-178: the map has returned; reduce and return
L_Reduce ==
    /\ pc = "L_wait"
    /\ MapReturned
    /\ LET ret == L_dL_reduce(couplings_flat, MapResults, Len(user_states),
                              options.regularization)
       IN  /\ L' = ret.L
           /\ dL' = ret.dL
    /\ pc' = "L_ret"
    /\ UNCHANGED <<cfgVars, ingestVars, user_states, couplings, epoch,
                   poolVars, optVars, outVars>>

(***************************************************************************)
(* LSpec: one call L_dL(couplings_flat, user_states, options, pool) on     *)
(* arguments drawn from bounded sets.                                      *)
(***************************************************************************)
CouplingRowVals == { <<0, 0>>, <<1, 0>>, <<1, 1>> }

LAttempts ==
    UNION { [1..k -> (0..(LRows - 1)) \X {0, 1}] : k \in 1..MaxAttempts }

LUserStates ==
    { [correct |-> [k \in 1..Len(a) |-> a[k][2]],
       abilities |-> 1,
       exercises_ind |-> [k \in 1..Len(a) |-> a[k][1]]] : a \in LAttempts }

RECURSIVE TotalAttempts(_, _)
TotalAttempts(us, n) ==
    IF n = 0 THEN 0 ELSE TotalAttempts(us, n - 1) + Len(us[n].exercises_ind)

InitL ==
    /\ options \in [file : {<<>>}, num_replicas : {1}, num_epochs : {0},
                    workers : 0..MaxWorkers, regularization : {0, 1},
                    max_pass_lbfgs : {MaxPassLbfgs}]
    /\ seed = 1
    /\ pc = "L_call"
    /\ replica = 0
    /\ lineno = 0
    /\ prev_user = "None"
    /\ attempts = <<>>
    /\ origin = <<>>
    /\ exercise_ind_dict = <<>>
    /\ current_ind = 0
    /\ couplings = <<>>
    /\ epoch = 0
    /\ Idle
    /\ wchunk = [w \in 1..options.workers |-> 0]
    /\ \E r \in CouplingRowVals : couplings_flat = [i \in 1..LRows |-> r]
    /\ user_states \in UNION { [1..n -> LUserStates] : n \in 0..MaxLUsers }
    /\ TotalAttempts(user_states, Len(user_states)) <= MaxTotalAttempts

NextL ==
    \/ L_Dispatch
    \/ \E w \in 1..options.workers : WorkerTake(w)
    \/ \E w \in 1..options.workers : LWorkerFinish(w)
    \/ LSyncMap
    \/ L_Reduce

LSpec == InitL /\ [][NextL]_vars

(***************************************************************************)
(* The E-step, lines 245-257.  mirt_util.sample_abilities_diffusion is an  *)
(* external routine: it reads the coupling rows of the user's exercises    *)
(* and returns a random sample of the ability; its energy is only printed. *)
(***************************************************************************)
EStepDispatch ==
    /\ pc = "epoch"
    /\ epoch < options.num_epochs
    /\ tasks' = [i \in 1..Len(user_states) |->
                    [fn |-> "sample_abilities_diffusion",
                     couplings |-> couplings, state |-> user_states[i],
                     ind |-> i - 1]]
    /\ chunk_next' = 1
    /\ rslts' = <<>>
    /\ arrival' = <<>>
    /\ trace' = Append(trace, "E")
    /\ pc' = "E_wait"
    /\ UNCHANGED <<cfgVars, ingestVars, user_states, couplings, epoch, wchunk,
                   optVars, retVars, saved>>

\* line 67 returning the index of the first user instead of user_index
sample_abilities_diffusion_no_index(args, drawn) ==
    [abilities |-> drawn, ind |-> 0]

\* sample_abilities_diffusion(args), lines 42-67, with the sample drawn
sample_abilities_diffusion(args, drawn) ==
    [abilities |-> drawn, ind |-> args.ind]

\* a worker returns the results of its chunk of sampling tasks
SWorkerFinish(w) ==
    /\ pc = "E_wait"
    /\ wchunk[w] # 0
    /\ LET ch == ChunkOf(wchunk[w], Len(tasks))
       IN  IF \E i \in ch : IndexRaises(tasks[i].couplings, tasks[i].state)
           THEN /\ pc' = "aborted"
                /\ UNCHANGED <<rslts, arrival>>
           ELSE /\ pc' = pc
                /\ \E drawn \in [ch -> AbilityVals] :
                      rslts' = [i \in DOMAIN rslts \cup ch |->
                                  IF i \in ch
                                  THEN sample_abilities_diffusion(tasks[i],
                                                                  drawn[i])
                                  ELSE rslts[i]]
                /\ arrival' = arrival \o Ascending(ch)
    /\ wchunk' = [wchunk EXCEPT ![w] = 0]
    /\ UNCHANGED <<cfgVars, ingestVars, user_states, couplings, epoch, tasks,
                   chunk_next, optVars, retVars, outVars>>

\* pool is None: map(sample_abilities_diffusion, tasks) in the main process
SSyncMap ==
    /\ pc = "E_wait"
    /\ options.workers = 0
    /\ ~MapReturned
    /\ IF \E i \in 1..Len(tasks) :
             IndexRaises(tasks[i].couplings, tasks[i].state)
       THEN /\ pc' = "aborted"
            /\ UNCHANGED <<rslts, arrival>>
       ELSE /\ pc' = pc
            /\ \E drawn \in [1..Len(tasks) -> AbilityVals] :
                  rslts' = [i \in 1..Len(tasks) |->
                              sample_abilities_diffusion(tasks[i], drawn[i])]
            /\ arrival' = [i \in 1..Len(tasks) |-> i]
    /\ UNCHANGED <<cfgVars, ingestVars, user_states, couplings, epoch, tasks,
                   chunk_next, wchunk, optVars, retVars, outVars>>

\* lines 254-257 storing a whole state, the first user's, under each index
RECURSIVE StoreWholeState(_, _, _)
StoreWholeState(us, rs, k) ==
    IF k > Len(rs) THEN us
    ELSE StoreWholeState(
             [us EXCEPT ![rs[k].ind + 1] =
                            [us[1] EXCEPT !.abilities = rs[k].abilities]],
             rs, k + 1)

\* lines 254-257 over the results rs[k..]
RECURSIVE StoreAbilities(_, _, _)
StoreAbilities(us, rs, k) ==
    IF k > Len(rs) THEN us
    ELSE StoreAbilities([us EXCEPT ![rs[k].ind + 1].abilities = rs[k].abilities],
                        rs, k + 1)

EStepStore ==
    /\ pc = "E_wait"
    /\ MapReturned
    /\ user_states' = StoreAbilities(user_states, MapResults, 1)
    /\ MapDiscard
    /\ pc' = "mstep"
    /\ UNCHANGED <<cfgVars, ingestVars, couplings, epoch, wchunk, optVars,
                   retVars, outVars>>

(***************************************************************************)
(* The M-step, lines 272-279.  scipy.optimize.fmin_l_bfgs_b is external:   *)
(* it evaluates L_dL first at x0 = couplings, then at trial points of its  *)
(* choice, at most maxfun times, and returns one of the points evaluated.  *)
(***************************************************************************)
TrialPoints(rows) == { [i \in 1..rows |-> r] : r \in CouplingRowVals }

MStepStart ==
    /\ pc = "mstep"
    /\ couplings_flat' = couplings
    /\ nfev' = 0
    /\ xs' = {}
    /\ trace' = Append(trace, "M")
    /\ pc' = "L_call"
    /\ UNCHANGED <<cfgVars, ingestVars, user_states, couplings, epoch,
                   poolVars, retVars, saved>>

\* line 275 without the copy: the optimizer's trial point is written into the
\* orchestrator's coupling matrix
OptTrialInPlace ==
    /\ pc = "L_ret"
    /\ nfev + 1 < options.max_pass_lbfgs
    /\ nfev' = nfev + 1
    /\ xs' = xs \cup {couplings_flat}
    /\ couplings_flat' \in TrialPoints(Len(couplings))
    /\ couplings' = couplings_flat'
    /\ MapDiscard
    /\ L' = 0
    /\ dL' = <<>>
    /\ pc' = "L_call"
    /\ UNCHANGED <<cfgVars, ingestVars, user_states, epoch, wchunk, outVars>>

\* the optimizer takes the value of L_dL and asks for another point
OptTrial ==
    /\ pc = "L_ret"
    /\ nfev + 1 < options.max_pass_lbfgs
    /\ nfev' = nfev + 1
    /\ xs' = xs \cup {couplings_flat}
    /\ couplings_flat' \in TrialPoints(Len(couplings))
    /\ MapDiscard
    /\ L' = 0
    /\ dL' = <<>>
    /\ pc' = "L_call"
    /\ UNCHANGED <<cfgVars, ingestVars, user_states, couplings, epoch, wchunk,
                   outVars>>

\* the optimizer returns; line 279 assigns couplings
OptReturn ==
    /\ pc = "L_ret"
    /\ couplings' \in xs \cup {couplings_flat}
    /\ nfev' = 0
    /\ xs' = {}
    /\ couplings_flat' = <<>>
    /\ MapDiscard
    /\ L' = 0
    /\ dL' = <<>>
    /\ pc' = "save"
    /\ UNCHANGED <<cfgVars, ingestVars, user_states, epoch, wchunk, outVars>>

\* lines 289-291 with the label of the epoch to come
SaveNextLabel ==
    /\ pc = "save"
    /\ saved' = Append(saved, [epoch |-> epoch + 1, couplings |-> couplings,
                               exercise_ind_dict |-> exercise_ind_dict])
    /\ trace' = Append(trace, "C")
    /\ IF DOMAIN exercise_ind_dict = {}
       THEN pc' = "aborted" /\ epoch' = epoch
       ELSE pc' = "epoch" /\ epoch' = epoch + 1
    /\ UNCHANGED <<cfgVars, ingestVars, user_states, couplings, poolVars,
                   optVars, retVars>>

(***************************************************************************)
(* Lines 288-308: the .npz checkpoint, then the .csv table, whose header   *)
(* reads tt[0] and raises IndexError when no exercise was indexed.         *)
(***************************************************************************)
Save ==
    /\ pc = "save"
    /\ saved' = Append(saved, [epoch |-> epoch, couplings |-> couplings,
                               exercise_ind_dict |-> exercise_ind_dict])
    /\ trace' = Append(trace, "C")
    /\ IF DOMAIN exercise_ind_dict = {}
       THEN pc' = "aborted" /\ epoch' = epoch
       ELSE pc' = "epoch" /\ epoch' = epoch + 1
    /\ UNCHANGED <<cfgVars, ingestVars, user_states, couplings, poolVars,
                   optVars, retVars>>

(***************************************************************************)
(* Spec: main() from its start to its end.                                 *)
(***************************************************************************)
\* the input files of Spec: u1 answers correctly, u2 does not
TrainRows ==
    { r \in GoodRows :
        /\ r.exercise \in {"e1", "e2"}
        /\ r.correct = "true" <=> r.user = "u1" }

Init ==
    /\ options \in [file : Files(TrainRows, MaxTrainLines),
                    num_replicas : {1},
                    num_epochs : 0..MaxEpochs,
                    workers : 0..MaxWorkers,
                    regularization : {1},
                    max_pass_lbfgs : {MaxPassLbfgs}]
    /\ seed = 1
    /\ Start

Next ==
    \/ ReadLine
    \/ EndOfFile
    \/ Trim
    \/ Finish
    \/ EStepDispatch
    \/ \E w \in 1..options.workers : WorkerTake(w)
    \/ \E w \in 1..options.workers : SWorkerFinish(w)
    \/ SSyncMap
    \/ EStepStore
    \/ MStepStart
    \/ L_Dispatch
    \/ \E w \in 1..options.workers : LWorkerFinish(w)
    \/ LSyncMap
    \/ L_Reduce
    \/ OptTrial
    \/ OptReturn
    \/ Save

Spec == Init /\ [][Next]_vars

(***************************************************************************)
(* What the claims about ingestion speak of.                               *)
(***************************************************************************)
TheFile == options.file

\* ingestion has completed (main() is past line 230 of the last pass)
IngestDone == pc \in {"trim", "epoch", "done"}

\* all records of one user are contiguous in the input
Contiguous ==
    \A i, j, k \in 1..Len(TheFile) :
        (i < j /\ j < k /\ TheFile[i].user = TheFile[k].user)
            => TheFile[j].user = TheFile[i].user

\* the lines of u's problem-attempt rows
PLineSet(u) ==
    { i \in 1..Len(TheFile) :
        TheFile[i].user = u /\ TheFile[i].rowtype = "problemlog" }

\* u's problem attempts of pass p, in input order
PassOf(u, p) ==
    LET ls == Ascending(PLineSet(u))
    IN  [i \in 1..Len(ls) |-> <<p, ls[i]>>]

UsersWithAttempts == { u \in Users : PLineSet(u) # {} }

ObservedExercises ==
    { TheFile[i].exercise :
        i \in { j \in 1..Len(TheFile) : TheFile[j].rowtype = "problemlog" } }

\* the exercises of the problem-attempt rows of lines 1..n, in first-seen order
RECURSIVE FirstSeen(_)
FirstSeen(n) ==
    IF n = 0 THEN <<>>
    ELSE LET fs == FirstSeen(n - 1)
             r == TheFile[n]
         IN  IF r.rowtype = "problemlog"
                /\ \A i \in 1..Len(fs) : fs[i] # r.exercise
             THEN Append(fs, r.exercise)
             ELSE fs

FirstSeenIndex(e) ==
    LET fs == FirstSeen(Len(TheFile))
    IN  (CHOOSE i \in 1..Len(fs) : fs[i] = e) - 1

\* C1: with contiguous records, ingestion with R replicas gives exactly R user
\* states for every user with a problem attempt, each holding exactly that
\* user's attempts of one single pass, and no pass of a user twice.
C1_ReplicasVerbatim ==
    (IngestDone /\ Contiguous) =>
        /\ Len(origin) = options.num_replicas * Cardinality(UsersWithAttempts)
        /\ \A i \in 1..Len(origin) :
              \E u \in UsersWithAttempts, p \in 0..(options.num_replicas - 1) :
                  origin[i] = PassOf(u, p)
        /\ \A i, j \in 1..Len(origin) : i # j => origin[i] # origin[j]

\* C3: after ingestion the trimmed coupling matrix has one row per distinct
\* exercise observed, so every stored exercise index is below the row count.
C3_RowsCoverIndices ==
    pc \in {"epoch", "done"} =>
        /\ Len(couplings) = Cardinality(ObservedExercises)
        /\ \A i \in 1..Len(user_states) :
              \A k \in 1..Len(user_states[i].exercises_ind) :
                  user_states[i].exercises_ind[k] < Len(couplings)

\* C4: the index map is at all times the dense first-seen numbering 0, 1, 2, ...
\* of the exercises indexed so far, an identifier keeps its index, and once one
\* pass is complete the map holds every observed exercise, so that later
\* replicas neither add nor change an index.
C4_IndexStability ==
    /\ { exercise_ind_dict[e] : e \in DOMAIN exercise_ind_dict }
          = 0..(current_ind - 1)
    /\ Cardinality(DOMAIN exercise_ind_dict) = current_ind
    /\ \A e \in DOMAIN exercise_ind_dict :
          e \in ObservedExercises /\ exercise_ind_dict[e] = FirstSeenIndex(e)
    /\ replica >= 1 => DOMAIN exercise_ind_dict = ObservedExercises

\* two replicas are complete and two exercises were indexed
C4_Witness ==
    /\ pc = "done"
    /\ replica = 2
    /\ current_ind >= 2
    /\ Cardinality(UsersWithAttempts) = 2

\* C10: a malformed record aborts the run during ingestion, and no malformed
\* record becomes an attempt of a user state.
C10_MalformedIsFatal ==
    /\ (\E i \in 1..Len(TheFile) : Malformed(TheFile[i])) => ~IngestDone
    /\ \A i \in 1..Len(origin) :
          \A k \in 1..Len(origin[i]) : ~Malformed(TheFile[origin[i][k][2]])

(***************************************************************************)
(* What the claims about L_dL speak of.                                    *)
(***************************************************************************)
\* np.add.at(dL, idx, v): every attempt's row is added, repeated index or not
RECURSIVE AddAt(_, _, _, _)
AddAt(g, idx, v, k) ==
    IF k > Len(idx) THEN g
    ELSE AddAt([g EXCEPT ![idx[k] + 1] = RowAdd(g[idx[k] + 1], v[k])],
               idx, v, k + 1)

RECURSIVE AccumulateAll(_, _, _, _)
AccumulateAll(g, rs, k, n) ==
    IF k > Len(rs) THEN g
    ELSE LET r == rs[k]
             v == [j \in 1..Len(r.dL) |->
                     <<PerUser(r.dL[j][1], n), PerUser(r.dL[j][2], n)>>]
         IN  AccumulateAll(AddAt(g, r.exercises_ind, v, 1), rs, k + 1, n)

\* the per-user results of the call in progress, computed in place
DirectResults ==
    [i \in 1..Len(user_states) |->
        L_dL_singleuser([couplings |-> couplings_flat, state |-> user_states[i]])]

RegRow(e) ==
    <<RegGrad(options.regularization, couplings_flat[e][1]),
      RegGrad(options.regularization, couplings_flat[e][2])>>

\* the gradient in which every attempt of every user is accumulated
AdditiveGradient ==
    LET g == AccumulateAll([r \in 1..Len(couplings_flat) |-> ZeroRow],
                           DirectResults, 1, Len(user_states))
    IN  [e \in 1..Len(couplings_flat) |-> RowAdd(g[e], RegRow(e))]

\* coupling row e is the exercise of no attempt of any user state
Unobserved(e) ==
    \A i \in 1..Len(user_states) :
        \A k \in 1..Len(user_states[i].exercises_ind) :
            user_states[i].exercises_ind[k] + 1 # e

HasRepeatedIndex ==
    \E i \in 1..Len(user_states) :
        \E j, k \in 1..Len(user_states[i].exercises_ind) :
            j # k /\ user_states[i].exercises_ind[j]
                        = user_states[i].exercises_ind[k]

\* C2: the gradient L_dL returns holds, in every row, the contributions of all
\* attempts of all users at that exercise, also of repeated exercise indices.
C2_AllAttemptsAccumulate ==
    pc = "L_ret" => dL = AdditiveGradient

\* C5 as claimed: a row without observed attempts is exactly zero, whatever the
\* coupling matrix and the regularization coefficient.
C5_UnobservedRowsZero ==
    pc = "L_ret" =>
        \A e \in 1..Len(dL) : Unobserved(e) => dL[e] = ZeroRow

\* C5 as amended: a row without observed attempts receives no data
\* contribution: it equals the regularization gradient 2 * lambda * couplings
\* of its row, and so is exactly zero when lambda = 0 or the row is zero.
C5_UnobservedRowsRegOnly ==
    pc = "L_ret" =>
        \A e \in 1..Len(dL) : Unobserved(e) =>
            /\ dL[e] = RegRow(e)
            /\ (options.regularization = 0 \/ couplings_flat[e] = ZeroRow)
                  => dL[e] = ZeroRow

\* L_dL returned with an unobserved row beside an observed one whose gradient
\* is not zero, under regularization and under none
C5_Witness ==
    /\ pc = "L_ret"
    /\ \E e, f \in 1..Len(dL) :
          /\ Unobserved(e)
          /\ ~Unobserved(f)
          /\ dL[f] # RegRow(f)
          /\ dL[e] # ZeroRow

\* C6: the objective and gradient L_dL returns are those of the reduction over
\* the users in their order in user_states, whatever the worker count and the
\* order in which the chunks came back.
C6_ReductionDeterministic ==
    pc = "L_ret" =>
        [L |-> L, dL |-> dL]
            = L_dL_reduce(couplings_flat, DirectResults, Len(user_states),
                          options.regularization)

\* L_dL returned after the chunks came back out of order, with results whose
\* reduction in the order of arrival gives other totals
C6_Witness ==
    /\ pc = "L_ret"
    /\ options.workers = 2
    /\ Len(arrival) = 3
    /\ arrival[1] = 3
    /\ [L |-> L, dL |-> dL]
          # L_dL_reduce(couplings_flat, MapResultsUnordered, Len(user_states),
                        options.regularization)

(***************************************************************************)
(* What the claims about the epoch loop speak of.                          *)
(***************************************************************************)
Phases == <<"E", "M", "C">>

Terminated == pc \in {"done", "aborted"}

\* positions of tasks whose result has not come back
Outstanding == { i \in 1..Len(tasks) : i \notin DOMAIN rslts }

LastPhase == IF trace = <<>> THEN "none" ELSE trace[Len(trace)]

\* the phases started so far are E, M, C, E, M, C, ... within num_epochs epochs;
\* sampling tasks exist only in an E-step and L_dL tasks only in an M-step
PhasesInOrder ==
    /\ Len(trace) <= 3 * options.num_epochs
    /\ \A i \in 1..Len(trace) : trace[i] = Phases[((i - 1) % 3) + 1]
    /\ \A i \in 1..Len(tasks) :
          /\ tasks[i].fn = "sample_abilities_diffusion" => LastPhase = "E"
          /\ tasks[i].fn = "L_dL_singleuser" => LastPhase = "M"
    /\ LastPhase = "M" => Outstanding = {} \/ pc = "L_wait"
    /\ pc = "done" => Len(trace) = 3 * options.num_epochs

\* a map in progress can go on: it has returned, or it runs in the main
\* process, or a worker holds a chunk, or a chunk is left for an idle worker
PoolCanStep ==
    \/ MapReturned
    \/ options.workers = 0
    \/ \E w \in DOMAIN wchunk : wchunk[w] # 0
    \/ chunk_next <= NumChunks(Len(tasks))

\* some step of the program can be taken
Runnable ==
    \/ pc \in {"load", "trim", "epoch", "mstep", "L_call", "L_ret", "save"}
    \/ pc \in {"E_wait", "L_wait"} /\ PoolCanStep

\* steps one map over n tasks takes at most: every chunk is taken and returned
MapSteps(n) == NumChunks(n) + n

\* steps left of the map in progress
MapLeft ==
    MapSteps(Len(tasks)) - (chunk_next - 1) - Cardinality(DOMAIN rslts)

\* evaluations the optimizer may still ask for after nfev of them
TrialsLeft(n) ==
    IF n + 1 < options.max_pass_lbfgs
    THEN options.max_pass_lbfgs - 1 - n ELSE 0

\* steps of one trial: OptTrial, L_Dispatch, the map, L_Reduce
TrialSteps(u) == MapSteps(u) + 3

\* steps left of the epoch at pc with u user states
StepsLeft(u) ==
    CASE pc = "save" -> 1
      [] pc = "L_ret" -> 2 + TrialsLeft(nfev) * TrialSteps(u)
      [] pc = "L_wait" -> 3 + MapLeft + TrialsLeft(nfev) * TrialSteps(u)
      [] pc = "L_call" -> 4 + MapSteps(u) + TrialsLeft(nfev) * TrialSteps(u)
      [] pc = "mstep" -> 5 + MapSteps(u) + TrialsLeft(0) * TrialSteps(u)
      [] pc = "E_wait" -> 6 + MapLeft + MapSteps(u)
                             + TrialsLeft(0) * TrialSteps(u)
      [] OTHER -> 0

\* steps of one whole epoch with u user states
EpochSteps(u) == 7 + 2 * MapSteps(u) + TrialsLeft(0) * TrialSteps(u)

\* user states there can be at most once ingestion is over
MaxUserStates == options.num_replicas * (Len(TheFile) + 1)

\* an upper bound of the steps the run can still take; 0 once it has ended
Rank ==
    CASE Terminated -> 0
      [] pc = "load" ->
            2 + options.num_epochs * EpochSteps(MaxUserStates)
              + (options.num_replicas - replica) * (Len(TheFile) + 1) - lineno
      [] pc = "trim" -> 2 + options.num_epochs * EpochSteps(MaxUserStates)
      [] pc = "epoch" ->
            1 + (options.num_epochs - epoch) * EpochSteps(Len(user_states))
      [] OTHER ->
            1 + (options.num_epochs - epoch - 1) * EpochSteps(Len(user_states))
              + StepsLeft(Len(user_states))

\* C7: the phases run are E-step, M-step, checkpoint, num_epochs times over,
\* an E-step is complete before its M-step starts, a run that ends without
\* abort has run exactly num_epochs epochs, and every run ends: a run that has
\* not ended can take a step, and every step lowers the bound Rank >= 0 of
\* the steps left.
C7_ExactlyNEpochs ==
    /\ []PhasesInOrder
    /\ [](Terminated \/ Runnable)
    /\ [](Rank >= 0)
    /\ [][Rank' < Rank]_vars

\* a run of two epochs ended without abort, with three user states
C7_Witness ==
    /\ pc = "done"
    /\ options.num_epochs = 2
    /\ Len(trace) = 6
    /\ Len(user_states) = 3

ZeroMatrix(n) == [i \in 1..n |-> ZeroRow]

\* C8: all tasks of one map carry the same coupling matrix, the tasks of an
\* E-step carry the orchestrator's, and couplings is assigned only when no
\* task is outstanding: by the trim before the first epoch and by line 279
\* once the optimizer has returned.
C8_CouplingsStableDuringMaps ==
    [][ /\ \A i, j \in 1..Len(tasks) : tasks[i].couplings = tasks[j].couplings
        /\ pc = "E_wait" => \A i \in 1..Len(tasks) : tasks[i].couplings = couplings
        /\ couplings' # couplings =>
              /\ Outstanding = {}
              /\ \/ pc = "trim" /\ pc' = "epoch"
                 \/ pc = "L_ret" /\ pc' = "save" ]_vars

\* in the second epoch two workers hold sampling tasks that carry the coupling
\* matrix the first epoch's M-step assigned
C8_Witness ==
    /\ pc = "E_wait"
    /\ epoch = 1
    /\ couplings # ZeroMatrix(Len(couplings))
    /\ Cardinality(Outstanding) = 3
    /\ \E v, w \in DOMAIN wchunk : v # w /\ wchunk[v] # 0 /\ wchunk[w] # 0

Training ==
    pc \in {"epoch", "E_wait", "mstep", "L_call", "L_wait", "L_ret", "save"}

\* C9: no step of training changes the number of user states, a correctness or
\* exercise-index vector or the index map; the M-step and the checkpoint
\* change no user state at all.
C9_OnlyAbilitiesChange ==
    [][ Training =>
          /\ Len(user_states') = Len(user_states)
          /\ \A i \in 1..Len(user_states) :
                /\ user_states'[i].correct = user_states[i].correct
                /\ user_states'[i].exercises_ind = user_states[i].exercises_ind
          /\ exercise_ind_dict' = exercise_ind_dict
          /\ current_ind' = current_ind
          /\ pc # "E_wait" => user_states' = user_states ]_vars

\* the second E-step has overwritten abilities of three user states and the
\* M-step after it has returned
C9_Witness ==
    /\ pc = "save"
    /\ epoch = 1
    /\ Len(user_states) = 3
    /\ \E i \in 1..Len(user_states) : user_states[i].abilities # RandN(i - 1)
    /\ \E i \in 1..Len(user_states) : user_states[i].abilities = RandN(i - 1)

(***************************************************************************)
(* What the claim about non-finite values speaks of.                       *)
(***************************************************************************)
NonFinite(v) == v = NaN \/ v = PosInf

FiniteMatrix(m) == \A r \in 1..Len(m) : ~NonFinite(m[r][1]) /\ ~NonFinite(m[r][2])

\* L_dL has returned an objective or a gradient entry that is not finite
NonFiniteReturned ==
    /\ pc = "L_ret"
    /\ NonFinite(L) \/ ~FiniteMatrix(dL)

\* C11: a non-finite value of the gradient computation aborts the run: once
\* L_dL has returned one, the next step of the run is the abort, and neither
\* the coupling matrix nor a written checkpoint holds a non-finite entry.
C11_NonFiniteAborts ==
    /\ [][NonFiniteReturned => pc' = "aborted"]_vars
    /\ [](FiniteMatrix(couplings)
           /\ \A i \in 1..Len(saved) : FiniteMatrix(saved[i].couplings))

(***************************************************************************)
(* What the claim about the grouping of records speaks of.                 *)
(***************************************************************************)
\* the first line of the maximal run of one user's records that holds line n
RunStart(n) ==
    CHOOSE j \in 1..n :
        /\ \A i \in j..n : TheFile[i].user = TheFile[n].user
        /\ j = 1 \/ TheFile[j - 1].user # TheFile[n].user

\* the problem-attempt rows of the run that ends with line n, in input order
RunPLines(n) ==
    Ascending({ i \in RunStart(n)..n : TheFile[i].rowtype = "problemlog" })

\* the line read last is the last of a maximal run of one user's records
RunEnds ==
    /\ pc = "load"
    /\ lineno >= 1
    /\ lineno = Len(TheFile) \/ TheFile[lineno + 1].user # TheFile[lineno].user

\* the step appends one user state, which holds the rows ls of the pass
EmitsStateOf(ls) ==
    /\ origin' = Append(origin, [k \in 1..Len(ls) |-> <<replica, ls[k]>>])
    /\ Len(user_states') = Len(user_states) + 1
    /\ LET st == user_states'[Len(user_states')]
       IN  /\ Len(st.correct) = Len(ls)
           /\ Len(st.exercises_ind) = Len(ls)
           /\ \A k \in 1..Len(ls) :
                 /\ st.correct[k]
                       = (IF TheFile[ls[k]].correct = "true" THEN 1 ELSE 0)
                 /\ st.exercises_ind[k]
                       = exercise_ind_dict'[TheFile[ls[k]].exercise]

\* a step of ingestion emits a state exactly when it leaves a run that holds
\* a problem-attempt row, and the state holds that run's problem-attempt rows
EmitsPerRun ==
    pc = "load" =>
        IF RunEnds /\ RunPLines(lineno) # <<>>
        THEN EmitsStateOf(RunPLines(lineno))
        ELSE origin' = origin /\ user_states' = user_states

\* C12: in every pass over the input, ingestion emits one user state per
\* maximal run of consecutive records of one user that holds a problem-attempt
\* row, and the state holds exactly the problem-attempt rows of that run, in
\* input order; no other step of ingestion emits a state.
C12_OneStatePerRun == [][EmitsPerRun]_vars

\* C12 of the first pass alone
C12_FirstPassPerRun == [][replica = 0 => EmitsPerRun]_vars

(***************************************************************************)
(* What the claim about the E-step's results speaks of.                    *)
(***************************************************************************)
\* the positions of the results that carry the index of user state i
ResultsOf(i) == { k \in DOMAIN rslts : rslts[k].ind = i - 1 }

\* every sampling task holds the state of the user whose index it carries,
\* and a result carries the index of the task at its position
TasksCarryTheirUser ==
    pc = "E_wait" =>
        /\ Len(tasks) = Len(user_states)
        /\ \A k \in 1..Len(tasks) :
              /\ tasks[k].ind + 1 \in 1..Len(user_states)
              /\ tasks[k].state = user_states[tasks[k].ind + 1]
        /\ \A k \in DOMAIN rslts : rslts[k].ind = tasks[k].ind

\* the step that ends an E-step gives every user state the one sample that
\* was computed from the task of that user
StoresOwnSample ==
    (pc = "E_wait" /\ pc' = "mstep") =>
        \A i \in 1..Len(user_states) :
            /\ Cardinality(ResultsOf(i)) = 1
            /\ \A k \in ResultsOf(i) :
                  /\ tasks[k].state = user_states[i]
                  /\ user_states'[i].abilities = rslts[k].abilities

\* C13: an E-step overwrites the ability of every user state exactly once,
\* with the sample computed from that user's own state: a result is matched
\* to its user state by the index its task carried, whatever the worker
\* count, the chunking and the order in which the chunks came back.
C13_OwnSampleOnce == []TasksCarryTheirUser /\ [][StoresOwnSample]_vars

\* the second E-step has ended on two workers with three user states that
\* did not all receive the same sample
C13_Witness ==
    /\ pc = "mstep"
    /\ epoch = 1
    /\ options.workers = 2
    /\ Len(user_states) = 3
    /\ user_states[1].abilities # user_states[2].abilities
    /\ user_states[3].abilities # RandN(2)

(***************************************************************************)
(* What the claim about the flow of the coupling matrix speaks of.         *)
(***************************************************************************)
\* the matrix epoch number e starts with: zeros, or the last checkpoint's
EpochInput(e) ==
    IF e = 0 THEN ZeroMatrix(Len(couplings)) ELSE saved[e].couplings

CouplingsInOrder ==
    /\ \A i \in 1..Len(saved) :
          /\ saved[i].epoch = i - 1
          /\ saved[i].exercise_ind_dict = exercise_ind_dict
    /\ Training => Len(saved) = epoch
    /\ pc = "done" => Len(saved) = options.num_epochs
    /\ pc \in {"epoch", "E_wait", "mstep", "L_call", "L_wait", "L_ret"}
          => couplings = EpochInput(epoch)
    /\ pc = "E_wait"
          => \A i \in 1..Len(tasks) : tasks[i].couplings = EpochInput(epoch)
    /\ (pc \in {"L_call", "L_wait", "L_ret"} /\ nfev = 0)
          => couplings_flat = EpochInput(epoch)

\* the checkpoint holds the matrix the optimizer returned and the index map
CheckpointsTheResult ==
    /\ (pc = "L_ret" /\ pc' = "save") => couplings' \in xs \cup {couplings_flat}
    /\ pc = "save" =>
          /\ saved' = Append(saved, [epoch |-> epoch, couplings |-> couplings,
                                     exercise_ind_dict |-> exercise_ind_dict])
          /\ couplings' = couplings

\* C14: epoch k's E-step and the start of its optimizer use the same matrix,
\* zeros for k = 0 and the matrix of checkpoint k - 1 after; checkpoint k is
\* written once the M-step of epoch k has returned and before the next
\* E-step, and holds the matrix that M-step returned and the index map; the
\* labels written are 0, 1, ..., each once, num_epochs of them in a run that
\* ends without abort.
C14_CouplingsFlowInOrder == []CouplingsInOrder /\ [][CheckpointsTheResult]_vars

\* a run of two epochs has ended whose two checkpoints differ, the first
\* not zero
C14_Witness ==
    /\ pc = "done"
    /\ Len(saved) = 2
    /\ saved[1].couplings # ZeroMatrix(Len(couplings))
    /\ saved[2].couplings # saved[1].couplings
    /\ Len(user_states) >= 2

====
